---- MODULE Spec2Model ----
(***************************************************************************)
(* Model of locator::abstract_replication_strategy                         *)
(* (locator/abstract_replication_strategy.cc): the version-gated endpoint  *)
(* cache, the replacement-aware endpoint filter, the range traversals with *)
(* wrap-around unwrapping and the pending-range simulation.                *)
(*                                                                         *)
(* token_metadata (the ring), the snitch and the concrete placement        *)
(* policies are collaborators whose code is not part of this file; they    *)
(* are modelled from their documented interface.                           *)
(***************************************************************************)
EXTENDS Integers, Sequences, FiniteSets, Bags, TLC

\* ---------------------------------------------------------------- bounds
MaxToken == 2
NumNodes == 2
MaxVersion == 3
MaxHits == 1
MaxRF == 2
MaxLen == 2

Tokens == 1..MaxToken
Addresses == 1..NumNodes

\* The address of the node the strategy runs on (what LocalStrategy returns).
LocalAddress == 1

VARIABLES
    tm,                             \* _token_metadata: the live ring
    strategy,                       \* the concrete placement policy
    snitch,                         \* _snitch: address -> datacenter
    cached_endpoints,               \* _cached_endpoints
    last_invalidated_ring_version,  \* _last_invalidated_ring_version
    cache_hits_count,               \* _cache_hits_count
    call,                           \* the last operation invoked and its arguments
    ret,                            \* what that operation returned
    observed                        \* first list returned per search token since
                                    \* the last ring mutation (history)

vars == <<tm, strategy, snitch, cached_endpoints, last_invalidated_ring_version,
          cache_hits_count, call, ret, observed>>

cacheVars == <<cached_endpoints, last_invalidated_ring_version, cache_hits_count>>

\* ------------------------------------------------------------- utilities
EmptyMap == [x \in {} |-> x]

MinOf(S) == CHOOSE x \in S : \A y \in S : x <= y
MaxOf(S) == CHOOSE x \in S : \A y \in S : y <= x

RECURSIVE SortSet(_)
SortSet(S) == IF S = {} THEN <<>>
              ELSE LET x == MinOf(S) IN <<x>> \o SortSet(S \ {x})

SeqRange(s) == {s[i] : i \in 1..Len(s)}

\* -------------------------------------------------- token_metadata (ring)
ring_tokens(m) == DOMAIN m.token_to_endpoint

sorted_tokens(m) == SortSet(ring_tokens(m))

\* Smallest ring token >= t, wrapping to the smallest ring token.
first_token(t, m) ==
    LET ge == {x \in ring_tokens(m) : x >= t}
    IN IF ge = {} THEN MinOf(ring_tokens(m)) ELSE MinOf(ge)

\* The ring's tokens in ring order, starting at first_token(t).
ring_range(t, m) ==
    LET s == sorted_tokens(m)
        n == Len(s)
        i == CHOOSE k \in 1..n : s[k] = first_token(t, m)
    IN [k \in 1..n |-> s[((i + k - 2) % n) + 1]]

get_ring_version(m) == m.ring_version

is_any_node_being_replaced(m) == m.replacing_endpoints # {}

is_being_replaced(ep, m) == ep \in m.replacing_endpoints

\* Token map after the given tokens are assigned to ep.
with_normal_tokens(map, tokens, ep) ==
    [t \in (DOMAIN map) \cup tokens |-> IF t \in tokens THEN ep ELSE map[t]]

update_normal_tokens(m, tokens, ep) ==
    [m EXCEPT !.token_to_endpoint = with_normal_tokens(@, tokens, ep),
              !.ring_version = @ + 1]

remove_endpoint(m, ep) ==
    [m EXCEPT !.token_to_endpoint =
                  [t \in {x \in DOMAIN @ : @[x] # ep} |-> @[t]],
              !.replacing_endpoints = @ \ {ep},
              !.ring_version = @ + 1]

add_replacing_endpoint(m, ep) ==
    [m EXCEPT !.replacing_endpoints = @ \cup {ep},
              !.ring_version = @ + 1]

\* A ring holding a copy of the token map only; the rest is left default.
clone_only_token_map(m) ==
    [token_to_endpoint |-> m.token_to_endpoint, ring_version |-> 0,
     replacing_endpoints |-> {}]

\* The ring token before t in sorted order; the last one before the first.
get_predecessor(t, m) ==
    LET lower == {x \in ring_tokens(m) : x < t}
    IN IF lower = {} THEN MaxOf(ring_tokens(m)) ELSE MaxOf(lower)

\* ------------------------------------------------------ snitch, topology
get_datacenter(ep) == snitch[ep]

\* Datacenter -> the token owners located in it (only datacenters with one).
get_datacenter_endpoints(m) ==
    LET owners == {m.token_to_endpoint[t] : t \in ring_tokens(m)}
        dcs == {get_datacenter(e) : e \in owners}
    IN [d \in dcs |-> {e \in owners : get_datacenter(e) = d}]

\* ------------------------------------------------------ placement policy
Strategies ==
    [kind : {"simple"}, rf : 0..MaxRF] \cup [kind : {"local"}, rf : {1}]

\* Distinct owners met walking the ring, until rf of them are collected.
RECURSIVE simple_walk(_, _, _, _)
simple_walk(toks, m, rf, acc) ==
    IF toks = <<>> \/ Len(acc) >= rf THEN acc
    ELSE LET ep == m.token_to_endpoint[Head(toks)]
         IN simple_walk(Tail(toks), m, rf,
                        IF ep \in SeqRange(acc) THEN acc ELSE Append(acc, ep))

calculate_natural_endpoints(search_token, m) ==
    IF strategy.kind = "local" THEN <<LocalAddress>>
    ELSE IF ring_tokens(m) = {} THEN <<>>
    ELSE simple_walk(ring_range(search_token, m), m, strategy.rf, <<>>)

allow_remove_node_being_replaced_from_natural_endpoints ==
    strategy.kind # "local"

\* -------------------------------------------------------- endpoint cache
\* Fault model: the version tag is refreshed but the stale entries are kept.
get_cached_endpoints_keep ==
    [cached |-> cached_endpoints, version |-> get_ring_version(tm)]

\* The cache map and its version tag once get_cached_endpoints() returned.
get_cached_endpoints ==
    IF last_invalidated_ring_version # get_ring_version(tm)
    THEN [cached |-> EmptyMap, version |-> get_ring_version(tm)]
    ELSE [cached |-> cached_endpoints, version |-> last_invalidated_ring_version]

\* Fault model: the stored list loses its first element.
emplaced_drop_first(endpoints) ==
    IF endpoints = <<>> THEN <<>> ELSE Tail(endpoints)

\* The value emplace() stores for a missed key.
emplaced(endpoints) == endpoints

\* Fault model: a missed list is stored under the search token itself.
get_natural_endpoints_keyed_by_search_token(search_token) ==
    LET c == get_cached_endpoints
    IN IF search_token \notin DOMAIN c.cached
       THEN LET endpoints == calculate_natural_endpoints(search_token, tm)
            IN [cached |-> (search_token :> emplaced(endpoints)) @@ c.cached,
                version |-> c.version,
                hits |-> cache_hits_count,
                hit |-> FALSE,
                result |-> endpoints]
       ELSE [cached |-> c.cached,
             version |-> c.version,
             hits |-> cache_hits_count + 1,
             hit |-> TRUE,
             result |-> c.cached[search_token]]

\* Fault model: clearing the cache also resets the hit counter.
get_natural_endpoints_resetting_hits(search_token) ==
    LET key_token == first_token(search_token, tm)
        c == get_cached_endpoints
        hits == IF last_invalidated_ring_version # get_ring_version(tm)
                THEN 0 ELSE cache_hits_count
    IN IF key_token \notin DOMAIN c.cached
       THEN LET endpoints == calculate_natural_endpoints(search_token, tm)
            IN [cached |-> (key_token :> emplaced(endpoints)) @@ c.cached,
                version |-> c.version,
                hits |-> hits,
                hit |-> FALSE,
                result |-> endpoints]
       ELSE [cached |-> c.cached,
             version |-> c.version,
             hits |-> hits + 1,
             hit |-> TRUE,
             result |-> c.cached[key_token]]

\* Effect and result of get_natural_endpoints(search_token).
get_natural_endpoints(search_token) ==
    LET key_token == first_token(search_token, tm)
        c == get_cached_endpoints
    IN IF key_token \notin DOMAIN c.cached
       THEN LET endpoints == calculate_natural_endpoints(search_token, tm)
            IN [cached |-> (key_token :> emplaced(endpoints)) @@ c.cached,
                version |-> c.version,
                hits |-> cache_hits_count,
                hit |-> FALSE,
                result |-> endpoints]
       ELSE [cached |-> c.cached,
             version |-> c.version,
             hits |-> cache_hits_count + 1,
             hit |-> TRUE,
             result |-> c.cached[key_token]]

\* Fault model: nothing is removed.
remove_being_replaced_keep_all(eps) == eps

\* boost::range::remove_if + erase: drops the matching elements, keeps order.
RECURSIVE remove_being_replaced(_)
remove_being_replaced(eps) ==
    IF eps = <<>> THEN <<>>
    ELSE IF is_being_replaced(Head(eps), tm)
         THEN remove_being_replaced(Tail(eps))
         ELSE <<Head(eps)>> \o remove_being_replaced(Tail(eps))

\* Fault model: the filter runs on a reference to the cache entry, not a copy.
get_natural_endpoints_without_node_being_replaced_inplace(search_token) ==
    LET r == get_natural_endpoints(search_token)
        key_token == first_token(search_token, tm)
    IN IF is_any_node_being_replaced(tm)
          /\ allow_remove_node_being_replaced_from_natural_endpoints
       THEN [r EXCEPT !.result = remove_being_replaced(@),
                      !.cached = (key_token :> remove_being_replaced(r.result)) @@ @]
       ELSE r

get_natural_endpoints_without_node_being_replaced(search_token) ==
    LET r == get_natural_endpoints(search_token)
    IN IF is_any_node_being_replaced(tm)
          /\ allow_remove_node_being_replaced_from_natural_endpoints
       THEN [r EXCEPT !.result = remove_being_replaced(@)]
       ELSE r


\* ------------------------------------------------------------ token ranges
\* dht::token_range: optional start and end bounds; <<>> is std::nullopt
\* (unbounded), <<t>> a bound at token t. Every range built here has an
\* exclusive start and an inclusive end, so the flags are not stored.
exclusive_bound(t) == <<t>>

inclusive_bound(t) == <<t>>

token_range(start, end) == [start |-> start, end |-> end]

InsertAt(v, pos, x) == SubSeq(v, 1, pos - 1) \o <<x>> \o SubSeq(v, pos, Len(v))

\* Fault model: a bounded range is always appended at the end.
insert_token_range_appending(prev_tok, tok, v) ==
    IF prev_tok < tok
    THEN Append(v, token_range(exclusive_bound(prev_tok), inclusive_bound(tok)))
    ELSE <<token_range(<<>>, inclusive_bound(tok))>>
         \o Append(v, token_range(exclusive_bound(prev_tok), <<>>))

\* Fault model: equal tokens are taken for an ordinary bounded range.
insert_token_range_bounded_when_equal(prev_tok, tok, v) ==
    IF prev_tok <= tok
    THEN LET pos == IF v # <<>> /\ v[Len(v)].end = <<>>
                    THEN Len(v) ELSE Len(v) + 1
         IN InsertAt(v, pos,
                     token_range(exclusive_bound(prev_tok), inclusive_bound(tok)))
    ELSE <<token_range(<<>>, inclusive_bound(tok))>>
         \o Append(v, token_range(exclusive_bound(prev_tok), <<>>))

insert_token_range_to_sorted_container_while_unwrapping(prev_tok, tok, v) ==
    IF prev_tok < tok
    THEN LET pos == IF v # <<>> /\ v[Len(v)].end = <<>>
                    THEN Len(v) ELSE Len(v) + 1
         IN InsertAt(v, pos,
                     token_range(exclusive_bound(prev_tok), inclusive_bound(tok)))
    ELSE <<token_range(<<>>, inclusive_bound(tok))>>
         \o Append(v, token_range(exclusive_bound(prev_tok), <<>>))

\* prev_tok when the traversal reaches the k-th sorted token.
prev_tok_at(s, k) == IF k = 1 THEN s[Len(s)] ELSE s[k - 1]

\* Fault model: prev_tok moves only past tokens the address replicates.
RECURSIVE get_ranges_sticky_prev(_, _, _, _)
get_ranges_sticky_prev(ep, m, k, prev) ==
    IF k > Len(sorted_tokens(m)) THEN <<>>
    ELSE LET tok == sorted_tokens(m)[k]
         IN IF ep \in SeqRange(calculate_natural_endpoints(tok, m))
            THEN LET rest == get_ranges_sticky_prev(ep, m, k + 1, tok)
                 IN IF prev < tok
                    THEN <<token_range(exclusive_bound(prev), inclusive_bound(tok))>>
                         \o rest
                    ELSE <<token_range(<<>>, inclusive_bound(tok))>> \o rest
                         \o <<token_range(exclusive_bound(prev), <<>>)>>
            ELSE get_ranges_sticky_prev(ep, m, k + 1, prev)

get_ranges_mutant(ep, m, k) ==
    IF k = 0 THEN <<>>
    ELSE get_ranges_sticky_prev(ep, m, 1, sorted_tokens(m)[Len(sorted_tokens(m))])

\* get_ranges(ep, tm): the vector after the first k tokens of the traversal.
RECURSIVE get_ranges_upto(_, _, _)
get_ranges_upto(ep, m, k) ==
    IF k = 0 THEN <<>>
    ELSE LET s == sorted_tokens(m)
             v == get_ranges_upto(ep, m, k - 1)
         IN IF ep \in SeqRange(calculate_natural_endpoints(s[k], m))
            THEN insert_token_range_to_sorted_container_while_unwrapping(
                     prev_tok_at(s, k), s[k], v)
            ELSE v

get_ranges(ep, m) == get_ranges_upto(ep, m, Len(sorted_tokens(m)))

\* Fault model: the last endpoint of a token is taken for its primary.
RECURSIVE get_primary_ranges_of_last_replica(_, _, _)
get_primary_ranges_of_last_replica(ep, m, k) ==
    IF k = 0 THEN <<>>
    ELSE LET s == sorted_tokens(m)
             v == get_primary_ranges_of_last_replica(ep, m, k - 1)
             eps == calculate_natural_endpoints(s[k], m)
         IN IF Len(eps) > 0 /\ eps[Len(eps)] = ep
            THEN insert_token_range_to_sorted_container_while_unwrapping(
                     prev_tok_at(s, k), s[k], v)
            ELSE v

\* get_primary_ranges(ep): the vector after the first k tokens.
RECURSIVE get_primary_ranges_upto(_, _, _)
get_primary_ranges_upto(ep, m, k) ==
    IF k = 0 THEN <<>>
    ELSE LET s == sorted_tokens(m)
             v == get_primary_ranges_upto(ep, m, k - 1)
             eps == calculate_natural_endpoints(s[k], m)
         IN IF Len(eps) > 0 /\ eps[1] = ep
            THEN insert_token_range_to_sorted_container_while_unwrapping(
                     prev_tok_at(s, k), s[k], v)
            ELSE v

get_primary_ranges(ep, m) == get_primary_ranges_upto(ep, m, Len(sorted_tokens(m)))

\* Fault model: the first endpoint is taken, whatever its datacenter.
first_in_dc_ignoring_dc(eps, local_dc_nodes) ==
    IF eps = <<>> THEN <<>> ELSE <<Head(eps)>>

\* The first endpoint of eps that is in local_dc_nodes, as <<e>>; <<>> if none.
RECURSIVE first_in_dc(_, _)
first_in_dc(eps, local_dc_nodes) ==
    IF eps = <<>> THEN <<>>
    ELSE IF Head(eps) \in local_dc_nodes THEN <<Head(eps)>>
    ELSE first_in_dc(Tail(eps), local_dc_nodes)

\* get_primary_ranges_within_dc(ep): the vector after the first k tokens.
RECURSIVE get_primary_ranges_within_dc_upto(_, _, _)
get_primary_ranges_within_dc_upto(ep, m, k) ==
    IF k = 0 THEN <<>>
    ELSE LET s == sorted_tokens(m)
             v == get_primary_ranges_within_dc_upto(ep, m, k - 1)
             local_dc_nodes == get_datacenter_endpoints(m)[get_datacenter(ep)]
             eps == calculate_natural_endpoints(s[k], m)
         IN IF first_in_dc(eps, local_dc_nodes) = <<ep>>
            THEN insert_token_range_to_sorted_container_while_unwrapping(
                     prev_tok_at(s, k), s[k], v)
            ELSE v

get_primary_ranges_within_dc(ep, m) ==
    get_primary_ranges_within_dc_upto(ep, m, Len(sorted_tokens(m)))

\* token_metadata::get_primary_ranges_for(t): (predecessor, t], unwrapped.
get_primary_ranges_for(t, m) ==
    LET left == get_predecessor(t, m)
    IN IF left < t
       THEN <<token_range(exclusive_bound(left), inclusive_bound(t))>>
       ELSE <<token_range(<<>>, inclusive_bound(t)),
              token_range(exclusive_bound(left), <<>>)>>

\* Fault model: only the first endpoint of a token gets its ranges.
address_ranges_of_token_first_endpoint(t, m) ==
    LET r == get_primary_ranges_for(t, m)
        eps == calculate_natural_endpoints(t, m)
    IN IF eps = <<>> THEN <<>> ELSE [n \in 1..Len(r) |-> <<eps[1], r[n]>>]

\* The (endpoint, range) pairs emplaced while visiting one token.
address_ranges_of_token(t, m) ==
    LET r == get_primary_ranges_for(t, m)
        eps == calculate_natural_endpoints(t, m)
    IN [n \in 1..(Len(eps) * Len(r)) |->
           <<eps[((n - 1) \div Len(r)) + 1], r[((n - 1) % Len(r)) + 1]>>]

\* get_address_ranges(tm): the pairs of the multimap, in insertion order.
RECURSIVE get_address_ranges_upto(_, _)
get_address_ranges_upto(m, k) ==
    IF k = 0 THEN <<>>
    ELSE get_address_ranges_upto(m, k - 1)
         \o address_ranges_of_token(sorted_tokens(m)[k], m)

get_address_ranges(m) == get_address_ranges_upto(m, Len(sorted_tokens(m)))

\* get_range_addresses(tm): the map after the first k tokens; emplace keeps
\* the entry a range already has.
RECURSIVE get_range_addresses_upto(_, _)
get_range_addresses_upto(m, k) ==
    IF k = 0 THEN EmptyMap
    ELSE LET before == get_range_addresses_upto(m, k - 1)
             t == sorted_tokens(m)[k]
             ranges == get_primary_ranges_for(t, m)
             eps == calculate_natural_endpoints(t, m)
         IN [r \in DOMAIN before \cup SeqRange(ranges) |->
                IF r \in DOMAIN before THEN before[r] ELSE eps]

get_range_addresses(m) == get_range_addresses_upto(m, Len(sorted_tokens(m)))

SeqToBag(v) == [x \in SeqRange(v) |-> Cardinality({i \in DOMAIN v : v[i] = x})]

IsPendingAddress(x, pending_address) == x[1] = pending_address

\* Fault model: the pending ring is built in the live ring, not in a clone.
pending_ring_live(m, pending_tokens, pending_address) ==
    [live |-> update_normal_tokens(m, pending_tokens, pending_address),
     temp |-> update_normal_tokens(m, pending_tokens, pending_address)]

\* The live ring and the temporary one once temp.update_normal_tokens ran.
pending_ring(m, pending_tokens, pending_address) ==
    [live |-> m,
     temp |-> update_normal_tokens(clone_only_token_map(m),
                                   pending_tokens, pending_address)]

\* Fault model: every range of the temporary ring is returned.
pending_ranges_unfiltered(temp, pending_address) ==
    SeqToBag([i \in DOMAIN get_address_ranges(temp) |->
                 get_address_ranges(temp)[i][2]])

\* The ranges pushed back while iterating get_address_ranges(temp). The
\* multimap's iteration order is unspecified: the vector is kept as a bag.
pending_ranges(temp, pending_address) ==
    LET pairs == get_address_ranges(temp)
        mine == SelectSeq(pairs, LAMBDA x : IsPendingAddress(x, pending_address))
    IN SeqToBag([i \in DOMAIN mine |-> mine[i][2]])

get_pending_address_ranges(m, pending_tokens, pending_address) ==
    LET r == pending_ring(m, pending_tokens, pending_address)
    IN [live |-> r.live, result |-> pending_ranges(r.temp, pending_address)]

\* ---------------------------------------------------- option validation
\* An sstring is a sequence of chars, a char a one-character string;
\* "0xE9" stands for a byte above 0x7f.
Digits == {"0", "1", "2", "3", "4", "5", "6", "7", "8", "9"}

DigitValue(c) ==
    CASE c = "0" -> 0 [] c = "1" -> 1 [] c = "2" -> 2 [] c = "3" -> 3
      [] c = "4" -> 4 [] c = "5" -> 5 [] c = "6" -> 6 [] c = "7" -> 7
      [] c = "8" -> 8 [] c = "9" -> 9

\* isdigit(c). For a char above 0x7f the argument is negative; glibc's
\* classification table covers -128..255 and holds no digit there.
isdigit(c) == c \in Digits

\* LONG_MAX and -LONG_MIN of a 64-bit long, as decimal digits.
LongMaxDigits ==
    <<"9", "2", "2", "3", "3", "7", "2", "0", "3", "6",
      "8", "5", "4", "7", "7", "5", "8", "0", "7">>

LongMinDigits == [LongMaxDigits EXCEPT ![Len(LongMaxDigits)] = "8"]

RECURSIVE SkipWhile(_, _)
SkipWhile(s, skipped) ==
    IF s # <<>> /\ Head(s) \in skipped THEN SkipWhile(Tail(s), skipped) ELSE s

RECURSIVE TakeDigits(_)
TakeDigits(s) ==
    IF s # <<>> /\ isdigit(Head(s)) THEN <<Head(s)>> \o TakeDigits(Tail(s))
    ELSE <<>>

\* d > limit for digit sequences of one length.
RECURSIVE DigitsGreater(_, _)
DigitsGreater(d, limit) ==
    IF d = <<>> THEN FALSE
    ELSE IF Head(d) # Head(limit)
         THEN DigitValue(Head(d)) > DigitValue(Head(limit))
         ELSE DigitsGreater(Tail(d), Tail(limit))

\* The value of the digits does not fit below the limit.
OutOfRange(digits, limit) ==
    LET d == SkipWhile(digits, {"0"})
    IN \/ Len(d) > Len(limit)
       \/ Len(d) = Len(limit) /\ DigitsGreater(d, limit)

\* std::stol(str), base 10: leading white space, an optional sign, then the
\* longest run of digits; what follows the digits is ignored.
stol(str) ==
    LET body == SkipWhile(str, {" "})
        negative == body # <<>> /\ Head(body) = "-"
        signed == body # <<>> /\ Head(body) \in {"-", "+"}
        digits == TakeDigits(IF signed THEN Tail(body) ELSE body)
    IN IF digits = <<>> THEN "invalid_argument"
       ELSE IF OutOfRange(digits, IF negative THEN LongMinDigits ELSE LongMaxDigits)
            THEN "out_of_range"
            ELSE "ok"

NoError == [outcome |-> "returned", error |-> <<>>]

configuration_exception(what) ==
    [outcome |-> "configuration_exception", error |-> what]

\* Fault model: the string is handed to stol without the digit check.
validate_replication_factor_unchecked(rf) ==
    IF stol(rf) # "ok"
    THEN configuration_exception(<<"must be numeric", rf>>)
    ELSE NoError

validate_replication_factor(rf) ==
    IF rf = <<>> \/ \E i \in DOMAIN rf : ~isdigit(rf[i])
    THEN configuration_exception(<<"must be numeric and non-negative", rf>>)
    ELSE IF stol(rf) # "ok"
         THEN configuration_exception(<<"must be numeric", rf>>)
         ELSE NoError

\* The class registry of replication strategies (create_object).
RegisteredStrategies == {"SimpleStrategy", "LocalStrategy"}

\* Option keys in the order a std::map<sstring, sstring> iterates them.
OptionKeys == <<"dc1", "foo", "replication_factor">>

\* create_replication_strategy: an unregistered name is reported as a
\* configuration error; an exception of the policy's constructor passes.
create_replication_strategy(strategy_name, constructed) ==
    IF strategy_name \notin RegisteredStrategies
    THEN configuration_exception(<<"no_such_class", strategy_name>>)
    ELSE IF ~constructed
         THEN [outcome |-> "threw", error |-> <<"constructor">>]
         ELSE NoError

\* The keys of config_options that are not in the set, in iteration order.
unrecognized_keys(config_options, expected) ==
    SelectSeq(OptionKeys, LAMBDA key : key \in config_options /\ key \notin expected)

\* Fault model: the last unrecognized key is reported.
unrecognized_key_last(config_options, expected) ==
    LET keys == unrecognized_keys(config_options, expected)
    IN IF keys = <<>> THEN <<>> ELSE <<keys[Len(keys)]>>

\* The key the loop throws for, as <<key>>; <<>> when it runs to its end.
unrecognized_key(config_options, expected) ==
    LET keys == unrecognized_keys(config_options, expected)
    IN IF keys = <<>> THEN <<>> ELSE <<Head(keys)>>

\* constructed and validated tell whether the policy's constructor and its
\* validate_options() return; expected is what recognized_options() returns,
\* <<>> for std::nullopt and <<S>> for the set S.
validate_replication_strategy(ks_name, strategy_name, config_options, constructed, validated, expected) ==
    LET created == create_replication_strategy(strategy_name, constructed)
        key == IF expected = <<>> THEN <<>>
               ELSE unrecognized_key(config_options, expected[1])
    IN IF created # NoError THEN created
       ELSE IF ~validated
            THEN [outcome |-> "threw", error |-> <<"validate_options">>]
       ELSE IF key # <<>>
            THEN configuration_exception(<<"Unrecognized strategy option", key[1],
                                         strategy_name, ks_name>>)
       ELSE NoError

\* ---------------------------------------------------------------- actions
\* call.outcome is "returned", "threw", or for a lookup "hit" / "miss";
\* call.invalidated tells whether the lookup found the ring version changed;
\* call.prior holds the entry the cache held for the key when the lookup began;
\* call.args holds the arguments of a validation call.
NoArgs == [op |-> "none", token |-> 0, ep |-> 0, tokens |-> {}, args |-> <<>>,
           outcome |-> "returned", invalidated |-> FALSE, prior |-> <<>>]

\* Nothing runs once a call crashed the process.
Alive == call.outcome # "crashed"

\* A snitch that places odd addresses in one datacenter, even ones in the
\* other.
AlternatingSnitch == [ep \in Addresses |-> IF ep % 2 = 1 THEN "dc1" ELSE "dc2"]

\* Every placement of the addresses in two datacenters (address 1 in "dc1").
Snitches == {sn \in [Addresses -> {"dc1", "dc2"}] : sn[1] = "dc1"}

Constructed(sn) ==
    /\ tm = [token_to_endpoint |-> EmptyMap, ring_version |-> 0,
             replacing_endpoints |-> {}]
    /\ strategy \in Strategies
    /\ snitch = sn
    /\ cached_endpoints = EmptyMap
    /\ last_invalidated_ring_version = 0
    /\ cache_hits_count = 0
    /\ call = NoArgs
    /\ ret = <<>>
    /\ observed = EmptyMap

Init == Constructed(AlternatingSnitch)

\* Construction with any of the snitches.
InitAnySnitch == \E sn \in Snitches : Constructed(sn)

\* Ring mutations, performed by the owner of the ring between calls.
Mutated(m) ==
    /\ Alive
    /\ tm.ring_version < MaxVersion
    /\ tm' = m
    /\ call' = [NoArgs EXCEPT !.op = "mutate"]
    /\ ret' = <<>>
    /\ observed' = EmptyMap
    /\ UNCHANGED <<strategy, snitch, cacheVars>>

UpdateNormalTokens ==
    \E tokens \in (SUBSET Tokens) \ {{}}, ep \in Addresses :
        Mutated(update_normal_tokens(tm, tokens, ep))

RemoveEndpoint ==
    \E ep \in Addresses :
        /\ \E t \in ring_tokens(tm) : tm.token_to_endpoint[t] = ep
        /\ Mutated(remove_endpoint(tm, ep))

AddReplacingEndpoint ==
    \E ep \in Addresses :
        /\ \E t \in ring_tokens(tm) : tm.token_to_endpoint[t] = ep
        /\ ep \notin tm.replacing_endpoints
        /\ Mutated(add_replacing_endpoint(tm, ep))

\* first_token() throws on a ring without tokens, before the cache is touched.
LookupThrows(op, t) ==
    /\ Alive
    /\ ring_tokens(tm) = {}
    /\ call' = [NoArgs EXCEPT !.op = op, !.token = t, !.outcome = "threw"]
    /\ ret' = <<>>
    /\ UNCHANGED <<tm, strategy, snitch, cacheVars, observed>>

LookupReturns(op, t, r) ==
    /\ Alive
    /\ ring_tokens(tm) # {}
    /\ r.hits <= MaxHits
    /\ cached_endpoints' = r.cached
    /\ last_invalidated_ring_version' = r.version
    /\ cache_hits_count' = r.hits
    /\ call' = [NoArgs EXCEPT
                   !.op = op, !.token = t,
                   !.outcome = IF r.hit THEN "hit" ELSE "miss",
                   !.invalidated = (last_invalidated_ring_version # get_ring_version(tm)),
                   !.prior = IF first_token(t, tm) \in DOMAIN cached_endpoints
                             THEN <<cached_endpoints[first_token(t, tm)]>> ELSE <<>>]
    /\ ret' = r.result
    /\ UNCHANGED <<tm, strategy, snitch>>

GetNaturalEndpoints ==
    \E t \in Tokens :
        \/ LookupThrows("get_natural_endpoints", t)
        \/ /\ LookupReturns("get_natural_endpoints", t, get_natural_endpoints(t))
           /\ observed' = IF t \in DOMAIN observed THEN observed
                          ELSE (t :> get_natural_endpoints(t).result) @@ observed

GetNaturalEndpointsWithoutNodeBeingReplaced ==
    \E t \in Tokens :
        \/ LookupThrows("get_natural_endpoints_without_node_being_replaced", t)
        \/ /\ LookupReturns("get_natural_endpoints_without_node_being_replaced", t,
                            get_natural_endpoints_without_node_being_replaced(t))
           /\ UNCHANGED observed


\* Fault model: the traversal first runs the cache's version check.
RangeCallCheckingVersion(op, ep, v) ==
    /\ Alive
    /\ ret' = IF ring_tokens(tm) = {} THEN <<>> ELSE v
    /\ call' = [NoArgs EXCEPT !.op = op, !.ep = ep]
    /\ cached_endpoints' = get_cached_endpoints.cached
    /\ last_invalidated_ring_version' = get_cached_endpoints.version
    /\ UNCHANGED <<tm, strategy, snitch, cache_hits_count, observed>>

\* sorted_tokens().back() on a ring without tokens is undefined behaviour:
\* the call either crashes or goes on to skip the loop and return nothing.
RangeCall(op, ep, v) ==
    /\ Alive
    /\ ret' = IF ring_tokens(tm) = {} THEN <<>> ELSE v
    /\ \E outcome \in IF ring_tokens(tm) = {} THEN {"returned", "crashed"}
                      ELSE {"returned"} :
           call' = [NoArgs EXCEPT !.op = op, !.ep = ep, !.outcome = outcome]
    /\ UNCHANGED <<tm, strategy, snitch, cacheVars, observed>>

GetRanges ==
    \E ep \in Addresses : RangeCall("get_ranges", ep, get_ranges(ep, tm))

GetPrimaryRanges ==
    \E ep \in Addresses :
        RangeCall("get_primary_ranges", ep, get_primary_ranges(ep, tm))

\* get_datacenter_endpoints().at(local_dc) throws for an unknown datacenter.
GetPrimaryRangesWithinDc ==
    \E ep \in Addresses :
        IF get_datacenter(ep) \in DOMAIN get_datacenter_endpoints(tm)
        THEN RangeCall("get_primary_ranges_within_dc", ep,
                       get_primary_ranges_within_dc(ep, tm))
        ELSE /\ Alive
             /\ call' = [NoArgs EXCEPT !.op = "get_primary_ranges_within_dc",
                                       !.ep = ep, !.outcome = "threw"]
             /\ ret' = <<>>
             /\ UNCHANGED <<tm, strategy, snitch, cacheVars, observed>>

PendingCall(op, t, pending_tokens, pending_address) ==
    LET r == get_pending_address_ranges(tm, pending_tokens, pending_address)
    IN /\ Alive
       /\ tm' = r.live
       /\ ret' = r.result
       /\ call' = [NoArgs EXCEPT !.op = op, !.token = t, !.ep = pending_address,
                                 !.tokens = pending_tokens]
       /\ UNCHANGED <<strategy, snitch, cacheVars, observed>>

GetPendingAddressRanges ==
    \E pending_tokens \in (SUBSET Tokens) \ {{}}, pending_address \in Addresses :
        PendingCall("get_pending_address_ranges", 0, pending_tokens, pending_address)

\* The single-token overload forwards a one-element set.
GetPendingAddressRangesOfToken ==
    \E pending_token \in Tokens, pending_address \in Addresses :
        PendingCall("get_pending_address_ranges_of_token", pending_token,
                    {pending_token}, pending_address)

\* Validation builds no lasting state: it returns or throws. The arguments
\* of validate_replication_strategy are kept as the tuple <<ks_name,
\* strategy_name, config_options, constructed, validated, expected>>, an
\* error as the tuple of its message and what the message names.
ValidationCall(op, args, r) ==
    /\ Alive
    /\ call' = [NoArgs EXCEPT !.op = op, !.args = args, !.outcome = r.outcome]
    /\ ret' = r.error
    /\ UNCHANGED <<tm, strategy, snitch, cacheVars, observed>>

\* Every string of up to MaxLen chars, and strings around the limits of long.
RfChars == {"0", "9", "-", "+", " ", "a", "0xE9"}

RfStrings ==
    UNION {[1..n -> RfChars] : n \in 0..MaxLen}
    \cup {pre \o d \o post :
            pre \in {<<>>, <<"0">>, <<"-">>},
            d \in {LongMaxDigits, LongMinDigits,
                   [LongMaxDigits EXCEPT ![1] = "8"]},
            post \in {<<>>, <<"0">>, <<"a">>}}

ValidateReplicationFactor ==
    \E rf \in RfStrings :
        ValidationCall("validate_replication_factor", rf,
                       validate_replication_factor(rf))

ValidateReplicationStrategy ==
    \E ks \in {"ks1", "ks2"},
       name \in RegisteredStrategies \cup {"NoSuchStrategy"},
       options \in SUBSET SeqRange(OptionKeys),
       ctor \in BOOLEAN, valid \in BOOLEAN,
       declared \in {<<>>} \cup {<<S>> : S \in SUBSET SeqRange(OptionKeys)} :
        ValidationCall("validate_replication_strategy",
                       <<ks, name, options, ctor, valid, declared>>,
                       validate_replication_strategy(ks, name, options,
                                                     ctor, valid, declared))

\* The bulk maps loop over sorted_tokens() only: an empty ring gives an empty
\* map. The multimap is returned as the bag of its pairs.
BulkCall(op, v) ==
    /\ Alive
    /\ call' = [NoArgs EXCEPT !.op = op]
    /\ ret' = v
    /\ UNCHANGED <<tm, strategy, snitch, cacheVars, observed>>

GetAddressRanges == BulkCall("get_address_ranges", SeqToBag(get_address_ranges(tm)))

GetRangeAddresses == BulkCall("get_range_addresses", get_range_addresses(tm))

NextRing == UpdateNormalTokens \/ RemoveEndpoint \/ AddReplacingEndpoint

NextLookup == GetNaturalEndpoints \/ GetNaturalEndpointsWithoutNodeBeingReplaced

NextRanges == GetRanges \/ GetPrimaryRanges \/ GetPrimaryRangesWithinDc

NextPending == GetPendingAddressRanges \/ GetPendingAddressRangesOfToken

NextCache ==
    \/ UpdateNormalTokens \/ RemoveEndpoint \/ AddReplacingEndpoint
    \/ GetNaturalEndpoints \/ GetNaturalEndpointsWithoutNodeBeingReplaced

SpecCache == Init /\ [][NextCache]_vars

NextRangeOps ==
    \/ UpdateNormalTokens \/ RemoveEndpoint \/ AddReplacingEndpoint
    \/ GetRanges \/ GetPrimaryRanges \/ GetPrimaryRangesWithinDc

SpecRanges == InitAnySnitch /\ [][NextRangeOps]_vars

NextSimulation ==
    \/ UpdateNormalTokens \/ RemoveEndpoint
    \/ GetPendingAddressRanges \/ GetPendingAddressRangesOfToken

SpecPending == Init /\ [][NextSimulation]_vars

NextBulk ==
    \/ UpdateNormalTokens \/ RemoveEndpoint \/ AddReplacingEndpoint
    \/ GetAddressRanges \/ GetRangeAddresses

SpecBulk == Init /\ [][NextBulk]_vars

NextFrame ==
    \/ UpdateNormalTokens \/ RemoveEndpoint
    \/ GetNaturalEndpoints
    \/ GetRanges \/ GetPrimaryRanges \/ GetPrimaryRangesWithinDc
    \/ GetAddressRanges \/ GetRangeAddresses
    \/ GetPendingAddressRanges \/ GetPendingAddressRangesOfToken

SpecFrame == Init /\ [][NextFrame]_vars

NextValidate == ValidateReplicationFactor \/ ValidateReplicationStrategy

SpecValidate == Init /\ [][NextValidate]_vars

Next == NextRing \/ NextLookup \/ NextRanges \/ NextPending

Spec == Init /\ [][Next]_vars

\* ------------------------------------------------- properties: the cache
IsLookup == call.op = "get_natural_endpoints" /\ call.outcome \in {"hit", "miss"}

IsFilteredLookup ==
    /\ call.op = "get_natural_endpoints_without_node_being_replaced"
    /\ call.outcome \in {"hit", "miss"}

\* C1: whatever ring mutations and lookups came before, get_natural_endpoints
\* returns the list the placement policy computes for the search token on
\* the current ring, also when the entry it hits was stored by a lookup of
\* another search token with the same first_token key.
C1_LookupEqualsFreshPolicy ==
    IsLookup => ret = calculate_natural_endpoints(call.token, tm)

\* A hit, after at least two ring mutations, on an entry that a lookup of a
\* different search token with the same key had stored.
C1_Witness ==
    /\ IsLookup /\ call.outcome = "hit"
    /\ tm.ring_version >= 2
    /\ ret # <<>>
    /\ \E t2 \in DOMAIN observed :
           /\ t2 # call.token
           /\ first_token(t2, tm) = first_token(call.token, tm)

\* C2: the first lookup after a ring mutation, for a key the cache still
\* holds from before the mutation, is a miss: the hit counter stays as it
\* was and the result is the policy's list on the mutated ring.
C2_MissAfterMutation ==
    [][ ( /\ call'.op = "get_natural_endpoints"
          /\ call'.outcome \in {"hit", "miss"}
          /\ last_invalidated_ring_version # get_ring_version(tm)
          /\ first_token(call'.token, tm) \in DOMAIN cached_endpoints )
        => ( /\ call'.outcome = "miss"
             /\ cache_hits_count' = cache_hits_count
             /\ ret' = calculate_natural_endpoints(call'.token, tm') ) ]_vars

\* A lookup that found the version changed while the cache held a list for
\* its key that differs from the list returned.
C2_Witness ==
    /\ IsLookup
    /\ call.invalidated
    /\ call.prior # <<>>
    /\ call.prior[1] # ret

\* C3: between two ring mutations every get_natural_endpoints call for a
\* token returns the list the first such call returned, hit or miss.
C3_RepeatedLookupsAgree ==
    IsLookup => /\ call.token \in DOMAIN observed
                /\ ret = observed[call.token]

\* A hit that returns a non-empty list for a token looked up before.
C3_Witness ==
    /\ IsLookup /\ call.outcome = "hit"
    /\ ret # <<>>
    /\ call.prior = <<ret>>
    /\ ~call.invalidated

\* ---------------------------------------- properties: replacement filter
NotBeingReplaced(a) == a \notin tm.replacing_endpoints

FilterApplies ==
    /\ tm.replacing_endpoints # {}
    /\ strategy.kind # "local"

C8_FilterKeepsCacheEntry ==
    IsFilteredLookup =>
        LET key_token == first_token(call.token, tm)
            full == calculate_natural_endpoints(call.token, tm)
        IN /\ key_token \in DOMAIN cached_endpoints
           /\ cached_endpoints[key_token] = full
           /\ last_invalidated_ring_version = get_ring_version(tm)
           /\ (call.prior # <<>> /\ ~call.invalidated => call.prior[1] = full)

\* A second filtered lookup of a key whose entry holds a being-replaced node.
C8_Witness ==
    /\ IsFilteredLookup /\ call.outcome = "hit"
    /\ FilterApplies
    /\ ret # cached_endpoints[first_token(call.token, tm)]

\* ------------------------------------------------ properties: the ranges
Returned(op) == call.op = op /\ call.outcome = "returned"

HasTokens == ring_tokens(tm) # {}

\* Token x lies in range r = (start, end].
Contains(r, x) ==
    /\ r.start = <<>> \/ r.start[1] < x
    /\ r.end = <<>> \/ x <= r.end[1]

\* The ring token before t, the largest ring token before the smallest.
RingPred(t, S) ==
    IF \E x \in S : x < t
    THEN CHOOSE x \in S : x < t /\ \A y \in S : y < t => y <= x
    ELSE CHOOSE x \in S : \A y \in S : y <= x

\* (RingPred(t), t] as stored: one bounded range, or the two unbounded
\* pieces when it wraps around.
Pieces(t, S) ==
    LET p == RingPred(t, S)
    IN IF p < t THEN {[start |-> <<p>>, end |-> <<t>>]}
       ELSE {[start |-> <<>>, end |-> <<t>>], [start |-> <<p>>, end |-> <<>>]}

\* The primary ranges of address a, those of the last call taken as returned.
PrimaryRangesOf(a) ==
    IF a = call.ep THEN ret ELSE get_primary_ranges(a, tm)

OwnersOfPosition(x) ==
    {ai \in Addresses \X (1..(MaxToken + 1)) :
        /\ ai[2] <= Len(PrimaryRangesOf(ai[1]))
        /\ Contains(PrimaryRangesOf(ai[1])[ai[2]], x)}

\* C4: the primary ranges of all addresses cover every token position
\* exactly once (no gap, no overlap, within one address or across them).
C4_PrimaryRangesPartition ==
    (Returned("get_primary_ranges") /\ HasTokens) =>
        \A x \in Tokens : Cardinality(OwnersOfPosition(x)) = 1

\* The same, on rings where the policy names an owner for every token.
C4_PartitionWhenEveryTokenOwned ==
    ( /\ Returned("get_primary_ranges") /\ HasTokens
      /\ \A t \in ring_tokens(tm) : calculate_natural_endpoints(t, tm) # <<>> )
    => \A x \in Tokens : Cardinality(OwnersOfPosition(x)) = 1

StartsBefore(a, b) ==
    /\ b.start # <<>>
    /\ a.start = <<>> \/ a.start[1] < b.start[1]

\* Sorted by start bound; an unbounded start only first, an unbounded end
\* only last, and the one never without the other.
WellFormed(v) ==
    /\ \A i, j \in DOMAIN v : i < j => StartsBefore(v[i], v[j])
    /\ \A i \in DOMAIN v :
           /\ v[i].start = <<>> => (i = 1 /\ v[i].end # <<>>)
           /\ v[i].end = <<>> => (i = Len(v) /\ v[i].start # <<>>)
    /\ (\E i \in DOMAIN v : v[i].start = <<>>)
           <=> (\E i \in DOMAIN v : v[i].end = <<>>)

IsRangeCall ==
    /\ call.op \in {"get_ranges", "get_primary_ranges",
                    "get_primary_ranges_within_dc"}
    /\ call.outcome = "returned"

\* C5: the vectors of get_ranges, get_primary_ranges and
\* get_primary_ranges_within_dc are sorted by start bound, with the
\* wrap-around range stored as (-inf, end] first and (start, +inf) last,
\* after each token of the traversal and so in the vector returned.
C5_RangesSortedAndUnwrapped ==
    /\ IsRangeCall => WellFormed(ret)
    /\ \A ep \in Addresses : \A k \in 0..Len(sorted_tokens(tm)) :
           /\ WellFormed(get_ranges_upto(ep, tm, k))
           /\ WellFormed(get_primary_ranges_upto(ep, tm, k))
           /\ get_datacenter(ep) \in DOMAIN get_datacenter_endpoints(tm)
                  => WellFormed(get_primary_ranges_within_dc_upto(ep, tm, k))

\* A returned vector holding the unbounded pair around a bounded range that
\* was inserted after the pair.
C5_Witness ==
    /\ IsRangeCall
    /\ Len(ret) >= 3
    /\ ret[1].start = <<>>
    /\ ret[Len(ret)].end = <<>>

ReplicatedTokens(ep) ==
    {t \in ring_tokens(tm) : ep \in SeqRange(calculate_natural_endpoints(t, tm))}

\* C6: get_ranges(address) holds, once each, the pieces of
\* (predecessor(t), t] for exactly the ring tokens t whose natural endpoints
\* contain address; the predecessor of the smallest token is the largest.
C6_RangesOfReplicatedTokens ==
    Returned("get_ranges") =>
        LET expected == UNION {Pieces(t, ring_tokens(tm)) :
                                  t \in ReplicatedTokens(call.ep)}
        IN /\ SeqRange(ret) = expected
           /\ Len(ret) = Cardinality(expected)

\* The address replicates the smallest token of a ring with several tokens,
\* not all of them, and gets the wrap-around pair.
C6_Witness ==
    /\ Returned("get_ranges")
    /\ Cardinality(ring_tokens(tm)) >= 2
    /\ ReplicatedTokens(call.ep) # ring_tokens(tm)
    /\ ret = <<[start |-> <<>>, end |-> <<MinOf(ring_tokens(tm))>>],
               [start |-> <<MaxOf(ring_tokens(tm))>>, end |-> <<>>]>>

\* A bounded range whose start is a token the address does not replicate.
C6_WitnessSkippedToken ==
    /\ Returned("get_ranges")
    /\ \E i \in DOMAIN ret :
           /\ ret[i].start # <<>> /\ ret[i].end # <<>>
           /\ ret[i].start[1] \notin ReplicatedTokens(call.ep)

\* ------------------------------------- properties: pending-range simulation
IsPendingCall ==
    call.op \in {"get_pending_address_ranges", "get_pending_address_ranges_of_token"}

\* C9: get_pending_address_ranges leaves the live ring's version and token
\* map as they were, and with them the cache and its version tag.
C9_SimulationLeavesRingAlone ==
    [][ call'.op \in {"get_pending_address_ranges",
                      "get_pending_address_ranges_of_token"}
        => /\ tm'.ring_version = tm.ring_version
           /\ tm'.token_to_endpoint = tm.token_to_endpoint
           /\ UNCHANGED cacheVars ]_vars

\* A simulation that returned ranges for a candidate token the live ring
\* still does not hold.
C9_Witness ==
    /\ IsPendingCall
    /\ HasTokens
    /\ \E t \in call.tokens : t \notin ring_tokens(tm)
    /\ ret # EmptyBag

\* The live token map with the candidate tokens given to the candidate.
SimulatedRing ==
    [token_to_endpoint |->
         [t \in ring_tokens(tm) \cup call.tokens |->
             IF t \in call.tokens THEN call.ep ELSE tm.token_to_endpoint[t]],
     ring_version |-> 0,
     replacing_endpoints |-> {}]

\* How often the candidate occurs in the endpoint list of token t there.
CandidateShare(t) ==
    LET eps == calculate_natural_endpoints(t, SimulatedRing)
    IN Cardinality({i \in DOMAIN eps : eps[i] = call.ep})

ExpectedPendingRanges ==
    LET S == ring_tokens(SimulatedRing)
        mine == {t \in S : CandidateShare(t) > 0}
        TokenOf(r) == CHOOSE t \in mine : r \in Pieces(t, S)
    IN [r \in UNION {Pieces(t, S) : t \in mine} |-> CandidateShare(TokenOf(r))]

\* C10: get_pending_address_ranges returns the ranges of the tokens that
\* list the candidate among their endpoints on the ring with the candidate
\* tokens added, and no other range; the single-token overload returns what
\* the set overload returns for the one-element set.
C10_PendingRangesOfCandidate ==
    IsPendingCall =>
        /\ ret = ExpectedPendingRanges
        /\ call.op = "get_pending_address_ranges_of_token"
               => call.tokens = {call.token}

\* The candidate gets ranges on a simulated ring that also has a token whose
\* endpoints are other nodes only.
C10_Witness ==
    /\ call.op = "get_pending_address_ranges"
    /\ ret # EmptyBag
    /\ \E t \in call.tokens : t \notin ring_tokens(tm)
    /\ \E t \in ring_tokens(SimulatedRing) :
           /\ CandidateShare(t) = 0
           /\ calculate_natural_endpoints(t, SimulatedRing) # <<>>

\* --------------------------------------- properties: invariant violations
IsRangeQuery ==
    call.op \in {"get_ranges", "get_primary_ranges", "get_primary_ranges_within_dc"}

\* The policy names no endpoint at all for some token of the ring.
SomeTokenWithoutEndpoints ==
    \E t \in ring_tokens(tm) : calculate_natural_endpoints(t, tm) = <<>>

\* C11: a range query on a ring without tokens, or on a ring where the
\* policy returns an empty endpoint list for some token, does not return a
\* range collection: it ends in an error (an exception or a crash).
C11_RangeQueryFailsLoudly ==
    (IsRangeQuery /\ (~HasTokens \/ SomeTokenWithoutEndpoints))
        => call.outcome \in {"threw", "crashed"}

\* The same for a ring that has tokens: only the empty endpoint list is left.
C11_EmptyEndpointListFailsLoudly ==
    (IsRangeQuery /\ HasTokens /\ SomeTokenWithoutEndpoints)
        => call.outcome \in {"threw", "crashed"}

\* ------------------------------------------------- properties: validation
\* The digits d, with zeros in front up to length n.
PadTo(d, n) == [i \in 1..n |-> IF i <= n - Len(d) THEN "0" ELSE d[i - (n - Len(d))]]

\* The number written d is at most the number written limit.
NumericallyAtMost(d, limit) ==
    LET n == IF Len(d) > Len(limit) THEN Len(d) ELSE Len(limit)
        a == PadTo(d, n)
        b == PadTo(limit, n)
    IN \/ a = b
       \/ \E i \in 1..n : /\ \A j \in 1..(i - 1) : a[j] = b[j]
                          /\ DigitValue(a[i]) < DigitValue(b[i])

\* Non-empty, decimal digits only, and a value a long can hold.
IsReplicationFactor(rf) ==
    /\ rf # <<>>
    /\ \A i \in DOMAIN rf : rf[i] \in Digits
    /\ NumericallyAtMost(rf, LongMaxDigits)

\* C12: validate_replication_factor returns for exactly the strings that
\* are non-empty, all decimal digits and parse as a non-negative integer;
\* for every other string it throws a configuration error, nothing else.
C12_ReplicationFactorAccepted ==
    call.op = "validate_replication_factor" =>
        /\ call.outcome \in {"returned", "configuration_exception"}
        /\ call.outcome = "returned" <=> IsReplicationFactor(call.args)

\* An all-digit string is rejected because its value is too large to parse.
C12_Witness ==
    /\ call.op = "validate_replication_factor"
    /\ call.outcome = "configuration_exception"
    /\ call.args # <<>>
    /\ \A i \in DOMAIN call.args : call.args[i] \in Digits

\* An all-digit string of more digits than LONG_MAX has is accepted.
C12_WitnessLeadingZero ==
    /\ call.op = "validate_replication_factor"
    /\ call.outcome = "returned"
    /\ Len(call.args) > Len(LongMaxDigits)

IsStrategyValidation == call.op = "validate_replication_strategy"

ArgKsName == call.args[1]
ArgStrategyName == call.args[2]
ArgConfigOptions == call.args[3]
ArgConstructed == call.args[4]
ArgValidated == call.args[5]
ArgExpected == call.args[6]

\* The supplied keys outside the set the policy declares (none is outside
\* when the policy declares no set).
UnrecognizedSupplied ==
    IF ArgExpected = <<>> THEN {}
    ELSE ArgConfigOptions \ ArgExpected[1]

NamesKeyPolicyKeyspace(key) ==
    /\ call.outcome = "configuration_exception"
    /\ ret = <<"Unrecognized strategy option", key, ArgStrategyName, ArgKsName>>

\* C13: validate_replication_strategy throws a configuration error naming
\* the offending key, the policy and the keyspace whenever a supplied key is
\* outside the policy's recognized options; an unknown strategy name is a
\* configuration error; it returns only when every supplied key is recognized.
C13_UnrecognizedOptionRejected ==
    IsStrategyValidation =>
        /\ UnrecognizedSupplied # {}
               => \E key \in UnrecognizedSupplied : NamesKeyPolicyKeyspace(key)
        /\ ArgStrategyName \notin RegisteredStrategies
               => call.outcome = "configuration_exception"
        /\ call.outcome = "returned" => UnrecognizedSupplied = {}

\* The policy was created and its own validate_options() returned.
PolicyAccepted ==
    /\ ArgStrategyName \in RegisteredStrategies
    /\ ArgConstructed
    /\ ArgValidated

\* C13, amended: an unknown strategy name is a configuration error; an
\* exception of the policy's constructor or of its validate_options() is
\* passed on as it is; once both returned, a supplied key outside the
\* declared set is a configuration error naming the first such key in key
\* order, the policy and the keyspace, and the call returns exactly when no
\* supplied key is outside the set or the policy declares no set.
C13_UnrecognizedOptionRejectedOncePolicyAccepted ==
    IsStrategyValidation =>
        /\ ArgStrategyName \notin RegisteredStrategies
               => /\ call.outcome = "configuration_exception"
                  /\ ret = <<"no_such_class", ArgStrategyName>>
        /\ (ArgStrategyName \in RegisteredStrategies /\ ~PolicyAccepted)
               => call.outcome = "threw"
        /\ (PolicyAccepted /\ UnrecognizedSupplied # {})
               => /\ \E key \in UnrecognizedSupplied : NamesKeyPolicyKeyspace(key)
                  /\ \A i \in DOMAIN OptionKeys :
                         OptionKeys[i] = ret[2] =>
                             \A j \in 1..(i - 1) :
                                 OptionKeys[j] \notin UnrecognizedSupplied
        /\ call.outcome = "returned"
               <=> (PolicyAccepted /\ UnrecognizedSupplied = {})

\* Two keys outside the declared set were supplied next to a recognized one,
\* and the error names one of them.
C13_Witness ==
    /\ IsStrategyValidation
    /\ PolicyAccepted
    /\ Cardinality(UnrecognizedSupplied) >= 2
    /\ ArgConfigOptions \ UnrecognizedSupplied # {}
    /\ call.outcome = "configuration_exception"

\* --------------------------------------- properties: the cache as a whole
IsCacheCall == IsLookup \/ IsFilteredLookup

IsCacheStep ==
    /\ call'.op \in {"get_natural_endpoints",
                     "get_natural_endpoints_without_node_being_replaced"}
    /\ call'.outcome \in {"hit", "miss"}

\* Version tag, keys and values of the cache agree with the current ring.
CacheValid ==
    /\ last_invalidated_ring_version = get_ring_version(tm)
    /\ DOMAIN cached_endpoints \subseteq ring_tokens(tm)
    /\ \A key \in DOMAIN cached_endpoints :
           cached_endpoints[key] = calculate_natural_endpoints(key, tm)

\* C14: when a cache-touching call has returned, the cache's version tag is
\* the ring's version, its keys are tokens of the current ring and its
\* values the policy's lists for them on the current ring; a call that finds
\* the version changed leaves its own entry and nothing else, a call that
\* does not adds at most its own entry.
C14_CacheValidAfterCall ==
    /\ [](IsCacheCall => CacheValid)
    /\ [][ IsCacheStep =>
             LET key_token == first_token(call'.token, tm)
             IN DOMAIN cached_endpoints' =
                    IF last_invalidated_ring_version # get_ring_version(tm)
                    THEN {key_token}
                    ELSE DOMAIN cached_endpoints \cup {key_token} ]_vars

\* A call found the version changed while the cache held another list for
\* its key, and now holds the one entry of the call.
C14_Witness ==
    /\ IsCacheCall
    /\ call.invalidated
    /\ call.prior # <<>>
    /\ Cardinality(DOMAIN cached_endpoints) = 1
    /\ call.prior[1] # cached_endpoints[first_token(call.token, tm)]

\* The key of the call is in the cache once the version check is done.
KeyPresentAfterVersionCheck ==
    /\ last_invalidated_ring_version = get_ring_version(tm)
    /\ first_token(call'.token, tm) \in DOMAIN cached_endpoints

\* C15: no step lowers the hit counter; a lookup raises it by one when its
\* key is in the cache after the version check and leaves it alone
\* otherwise, and no other step changes it, a ring mutation included.
C15_HitCounterMonotonic ==
    [][ /\ cache_hits_count' >= cache_hits_count
        /\ IsCacheStep =>
               cache_hits_count' =
                   IF KeyPresentAfterVersionCheck THEN cache_hits_count + 1
                   ELSE cache_hits_count
        /\ ~IsCacheStep => cache_hits_count' = cache_hits_count ]_vars

\* After a hit was counted, a lookup finds the version changed and misses,
\* and the count is still there.
C15_Witness ==
    /\ IsCacheCall
    /\ call.invalidated
    /\ call.outcome = "miss"
    /\ call.prior # <<>>
    /\ cache_hits_count >= 1

\* ------------------------------------ properties: primary ranges in a DC
\* The members of the datacenter of address a, as the topology knows them.
DcMembers(a) == get_datacenter_endpoints(tm)[get_datacenter(a)]

\* The positions in t's endpoint list of members of a's datacenter.
DcPositions(t, a) ==
    LET eps == calculate_natural_endpoints(t, tm)
    IN {i \in DOMAIN eps : eps[i] \in DcMembers(a)}

\* The first entry of t's endpoint list within a's datacenter is a itself.
FirstWithinDc(t, a) ==
    /\ DcPositions(t, a) # {}
    /\ calculate_natural_endpoints(t, tm)[MinOf(DcPositions(t, a))] = a

\* The within-DC primary ranges of a, those of the last call taken as returned.
WithinDcRangesOf(a) ==
    IF a = call.ep THEN ret ELSE get_primary_ranges_within_dc(a, tm)

\* C16: get_primary_ranges_within_dc(address) returns the pieces of
\* (predecessor(t), t] for exactly the ring tokens t whose first endpoint
\* within address's datacenter is address; the ranges of two nodes of one
\* datacenter share no range, and a token without an endpoint in the
\* datacenter gives a range to none of its nodes.
C16_WithinDcPrimaryRanges ==
    Returned("get_primary_ranges_within_dc") =>
        LET S == ring_tokens(tm)
            mine == {t \in S : FirstWithinDc(t, call.ep)}
        IN /\ SeqRange(ret) = UNION {Pieces(t, S) : t \in mine}
           /\ Len(ret) = Cardinality(UNION {Pieces(t, S) : t \in mine})
           /\ \A b \in DcMembers(call.ep) \ {call.ep} :
                  /\ SeqRange(ret) \cap SeqRange(WithinDcRangesOf(b)) = {}
                  /\ \A x \in Tokens :
                         ~ /\ \E i \in DOMAIN ret : Contains(ret[i], x)
                           /\ \E j \in DOMAIN WithinDcRangesOf(b) :
                                  Contains(WithinDcRangesOf(b)[j], x)
           /\ \A t \in S : DcPositions(t, call.ep) = {} =>
                  \A b \in DcMembers(call.ep) :
                      SeqRange(WithinDcRangesOf(b)) \cap Pieces(t, S) = {}

\* The address gets the range of a token whose first endpoint is a node of
\* another datacenter.
C16_Witness ==
    /\ Returned("get_primary_ranges_within_dc")
    /\ \E t \in ring_tokens(tm) :
           /\ Pieces(t, ring_tokens(tm)) \subseteq SeqRange(ret)
           /\ calculate_natural_endpoints(t, tm)[1] # call.ep

\* The ring has a token without any endpoint in the address's datacenter
\* next to one the address gets the range of.
C16_WitnessNoMember ==
    /\ Returned("get_primary_ranges_within_dc")
    /\ ret # <<>>
    /\ \E t \in ring_tokens(tm) :
           /\ calculate_natural_endpoints(t, tm) # <<>>
           /\ DcPositions(t, call.ep) = {}

\* Two nodes of the datacenter of the call both have ranges.
C16_WitnessTwoNodes ==
    /\ Returned("get_primary_ranges_within_dc")
    /\ ret # <<>>
    /\ \E b \in DcMembers(call.ep) \ {call.ep} : WithinDcRangesOf(b) # <<>>

\* ---------------------------------------- properties: ring with one token
\* (-inf, t] followed by (t, +inf).
UnboundedPair(t) ==
    <<[start |-> <<>>, end |-> <<t>>], [start |-> <<t>>, end |-> <<>>]>>

\* C17: on a ring with the single token t, what a range query emits for t is
\* the pair (-inf, t], (t, +inf), never the bounded range (t, t]; get_ranges
\* returns the pair to every address among t's endpoints, which so holds
\* every token position.
C17_SingleTokenOwnsWholeRing ==
    (IsRangeCall /\ Cardinality(ring_tokens(tm)) = 1) =>
        LET t == MinOf(ring_tokens(tm))
        IN /\ ret # <<>> => ret = UnboundedPair(t)
           /\ [start |-> <<t>>, end |-> <<t>>] \notin SeqRange(ret)
           /\ ( /\ call.op = "get_ranges"
                /\ call.ep \in SeqRange(calculate_natural_endpoints(t, tm)) )
              => /\ ret = UnboundedPair(t)
                 /\ \A x \in Tokens : \E i \in DOMAIN ret : Contains(ret[i], x)

\* get_ranges returned the pair on a ring with one token that is neither
\* the smallest nor the largest token value.
C17_Witness ==
    /\ Returned("get_ranges")
    /\ Cardinality(ring_tokens(tm)) = 1
    /\ Len(ret) = 2
    /\ \E x \in Tokens : x # MinOf(ring_tokens(tm))

\* ------------------------------------------- properties: the bulk maps
\* C18: the pair (a, r) is in get_address_ranges(ring) exactly when a is in
\* the list get_range_addresses(ring) maps r to; the ranges mapped are the
\* pieces of (predecessor(t), t] of the ring's tokens, each mapped to the
\* policy's endpoint list for its token, in the policy's order.
C18_RangeAddressesReversesAddressRanges ==
    LET S == ring_tokens(tm)
        pairs == IF call.op = "get_address_ranges" THEN BagToSet(ret)
                 ELSE BagToSet(SeqToBag(get_address_ranges(tm)))
        lists == IF call.op = "get_range_addresses" THEN ret
                 ELSE get_range_addresses(tm)
    IN call.op \in {"get_address_ranges", "get_range_addresses"} =>
           /\ \A a \in Addresses :
                  \A r \in DOMAIN lists \cup {p[2] : p \in pairs} :
                      <<a, r>> \in pairs
                          <=> (r \in DOMAIN lists /\ a \in SeqRange(lists[r]))
           /\ \A p \in pairs : p[1] \in Addresses
           /\ DOMAIN lists = UNION {Pieces(t, S) : t \in S}
           /\ \A t \in S : \A r \in Pieces(t, S) :
                  lists[r] = calculate_natural_endpoints(t, tm)

\* get_range_addresses returned the two pieces of a wrap-around range, mapped
\* to a list of two endpoints, next to a bounded range.
C18_Witness ==
    /\ call.op = "get_range_addresses"
    /\ Cardinality(DOMAIN ret) >= 3
    /\ \E r \in DOMAIN ret : r.start = <<>> /\ Len(ret[r]) >= 2

\* get_address_ranges returned pairs for two addresses.
C18_WitnessAddressRanges ==
    /\ call.op = "get_address_ranges"
    /\ \E p, q \in BagToSet(ret) : p[1] # q[1] /\ p[2] = q[2]

\* ------------------------------------ properties: range operations, frame
RangeOperations ==
    {"get_ranges", "get_primary_ranges", "get_primary_ranges_within_dc",
     "get_address_ranges", "get_range_addresses",
     "get_pending_address_ranges", "get_pending_address_ranges_of_token"}

\* C19: a range operation leaves the cache's entries, its version tag and
\* the hit counter as they were, whatever lookups and ring mutations came
\* before it.
C19_RangeOperationsLeaveCacheAlone ==
    [][ call'.op \in RangeOperations => UNCHANGED cacheVars ]_vars

\* A range operation returned ranges while the cache, hit before, holds
\* entries of an earlier ring version.
C19_Witness ==
    /\ call.op \in RangeOperations
    /\ call.outcome = "returned"
    /\ ret # <<>>
    /\ cached_endpoints # EmptyMap
    /\ cache_hits_count >= 1
    /\ last_invalidated_ring_version # get_ring_version(tm)

\* ------------------------------- properties: primary ranges among the others
\* What an operation returns for address a: the value of the last call if
\* it was that operation for a, the operation's result on the ring otherwise.
ResultOf(op, a, v) == IF Returned(op) /\ call.ep = a THEN ret ELSE v

\* p can be got from v by leaving elements out.
IsSubsequence(p, v) ==
    \E f \in [DOMAIN p -> DOMAIN v] :
        /\ \A i \in DOMAIN p : v[f[i]] = p[i]
        /\ \A i, j \in DOMAIN p : i < j => f[i] < f[j]

IsDcMember(a) ==
    /\ get_datacenter(a) \in DOMAIN get_datacenter_endpoints(tm)
    /\ a \in get_datacenter_endpoints(tm)[get_datacenter(a)]

\* C20: on every ring with tokens and for every address, the primary ranges
\* of the address occur among its ranges in the same order, and among its
\* within-DC primary ranges when the address is a member of its datacenter.
C20_PrimaryRangesAmongRanges ==
    HasTokens =>
        \A a \in Addresses :
            LET primary == ResultOf("get_primary_ranges", a,
                                    get_primary_ranges(a, tm))
                all == ResultOf("get_ranges", a, get_ranges(a, tm))
            IN /\ IsSubsequence(primary, all)
               /\ IsDcMember(a) =>
                      SeqRange(primary) \subseteq
                          SeqRange(ResultOf("get_primary_ranges_within_dc", a,
                                            get_primary_ranges_within_dc(a, tm)))

\* get_primary_ranges returned ranges to a member of its datacenter that
\* has more ranges than primary ones, in the datacenter and in all.
C20_Witness ==
    /\ Returned("get_primary_ranges")
    /\ ret # <<>>
    /\ IsDcMember(call.ep)
    /\ Len(get_ranges(call.ep, tm)) > Len(ret)
    /\ Len(get_primary_ranges_within_dc(call.ep, tm)) > Len(ret)

====
